---- MODULE Spec2Model ----
(***************************************************************************)
(* Request lifecycle of the Autotask Search MCP server                     *)
(* (src/autotask_search_mcp/server.py).                                    *)
(*                                                                         *)
(* One tool invocation is modelled as a coroutine: an action per piece of  *)
(* code between two suspension points (await client.get/post,              *)
(* await asyncio.sleep).  The backend is the environment: at every request *)
(* it answers with any status code and any body of the bounded sets below, *)
(* or the transport raises.                                                *)
(***************************************************************************)
EXTENDS Integers, Sequences, FiniteSets, TLC

VARIABLES
    pc,             \* position of the coroutine
    tool,           \* name of the tool invoked ("" before the call)
    args,           \* the arguments the caller passed (as given)
    req,            \* locals url / params / timeout of the invocation
    requests,       \* every HTTP request sent so far, in order
    response,       \* status_code of the local `response` (0: none yet)
    task_id,        \* local task_id of search_tickets
    poll_attempt,   \* loop variable of the poll loop
    sleeps,         \* completed asyncio.sleep(3) calls
    init_resp,      \* what the backend answered to the first request
    only_pending,   \* every status check that left the loop running so far
                    \* answered status PENDING
    last_status,    \* `status` of the latest status-check body
    last_error,     \* `error` of the latest status-check body, if it has one
    statuses,       \* number of status-check bodies whose `status` was read
    retry_resp,     \* what the backend answered to the re-issued search
    result,         \* what the tool returned (or raised) to the caller
    raised,         \* the exception a request of the invocation raised, and
                    \* the number of the request
    polled_code,    \* status code of the status-check answer that has just
                    \* left the loop polling (0 otherwise)
    API_KEY,        \* the module-level API_KEY, set at import
    frames,         \* the locals of each of the concurrent invocations
    inputs          \* what each concurrent invocation was given so far: its
                    \* call and the values its awaits delivered

\* the state of the single invocation
seq == <<pc, tool, args, req, requests, response, task_id, poll_attempt,
         sleeps, init_resp, only_pending, last_status, last_error, statuses,
         retry_resp, result, raised, polled_code>>

\* the state of the concurrent invocations
conc == <<API_KEY, frames, inputs>>

vars == <<seq, conc>>

-----------------------------------------------------------------------------
(* Bounds of the model *)

\* how far the numeric inputs go beyond the edges of their valid ranges
Margin == 1

-----------------------------------------------------------------------------
(* Python values *)

None == "None"

\* an optional key of a JSON object / an optional argument
Opt(S) == {[has |-> FALSE]} \cup {[has |-> TRUE, v |-> s] : s \in S}
Field(k, o) == IF o.has THEN k :> o.v ELSE <<>>

\* dict.get(key, default)
Get(data, key, default) == IF key \in DOMAIN data THEN data[key] ELSE default

\* JSON values that the code passes through or calls .get on
JDict(items) == [type |-> "dict", items |-> items]
JNull == [type |-> "null"]
EmptyDict == JDict(<<>>)

\* str(x) of a number
Str(x) == <<"str", x>>

-----------------------------------------------------------------------------
(* What a step of the coroutine produces *)

Return(v) == [t |-> "return", v |-> v]
Raise(e)  == [t |-> "raise", exc |-> e]

\* the string a tool returns: its kind and the data it is built from
Text(kind, data) == [type |-> "str", kind |-> kind, data |-> data]
NoData == <<>>

\* an exception leaving the tool function
Propagated(e) == [type |-> "exception", kind |-> e, data |-> NoData]

-----------------------------------------------------------------------------
(* The backend *)

StatusCodes == {200, 201, 202, 301, 400, 401, 404, 429, 500, 503}
TransportErrors == {"ConnectError", "TimeoutException", "ReadError"}

TaskIds == {"t1"}
ResultLists == {<<>>, <<2, 1, 3>>}
Paginations == {JNull, JDict([current_page |-> 1, total_pages |-> 3])}
FilterEchoes == {JDict([sentiment |-> "negative"])}

NotJson == [json |-> "invalid"]
JsonArray == [json |-> "nondict"]
JsonObject(data) == [json |-> "dict", data |-> data]

\* bodies of the search endpoint: no JSON, JSON that is no object, objects
\* with any of task_id / results / pagination, and result pages with any of
\* filters / cache_hit
SearchBodies ==
    {NotJson, JsonArray} \cup
    {JsonObject(Field("task_id", t) @@ Field("results", r) @@
                Field("pagination", p)) :
        t \in Opt(TaskIds), r \in Opt(ResultLists), p \in Opt(Paginations)}
    \cup
    {JsonObject(("results" :> r) @@ Field("filters", f) @@
                Field("cache_hit", c)) :
        r \in ResultLists, f \in Opt(FilterEchoes), c \in Opt({TRUE})}

\* bodies of the job-status endpoint
StatusBodies ==
    {NotJson, JsonArray} \cup
    {JsonObject(Field("status", s) @@ Field("error", e)) :
        s \in Opt({"PENDING", "SUCCESS", "FAILURE", "STARTED"}),
        e \in Opt({"worker crashed"})}

Http(code, body) == [t |-> "http", status_code |-> code, body |-> body]
Failed(e) == [t |-> "exc", exc |-> e]

SearchResponses ==
    {Failed(e) : e \in TransportErrors} \cup
    {Http(c, b) : c \in StatusCodes, b \in SearchBodies}

StatusResponses ==
    {Failed(e) : e \in TransportErrors} \cup
    {Http(c, b) : c \in {200, 401, 404, 500}, b \in StatusBodies}

\* a body that honours the contract of the search endpoint: a JSON object
\* whose pagination, when present, is an object
IsSearchResultBody(b) ==
    /\ b.json = "dict"
    /\ Get(b.data, "pagination", EmptyDict).type = "dict"

NoResponse == [t |-> "none"]

\* the JSON object of an answer that raise_for_status lets through and
\* that is not a deferral; no object otherwise
PageOf(r) ==
    IF r.status_code \div 100 = 2 /\ r.status_code # 202
        /\ r.body.json = "dict"
    THEN <<r.body.data>> ELSE <<>>

\* what is remembered of an answer of the search endpoint: its status, the
\* job it announces (202 only), whether its body honours the contract and
\* the object of a result page
Seen(r) ==
    IF r.t = "exc" THEN r
    ELSE [t |-> "http", status_code |-> r.status_code,
          task_id |-> IF r.status_code = 202 /\ r.body.json = "dict"
                      THEN Get(r.body.data, "task_id", None) ELSE None,
          well_formed |-> IF r.status_code = 202 THEN r.body.json = "dict"
                          ELSE IsSearchResultBody(r.body),
          page |-> PageOf(r)]

-----------------------------------------------------------------------------
(* Code shared by the tools *)

\* a raise_for_status that raises for 4xx and 5xx only
raise_for_status_errors_only(status_code) == status_code >= 400

\* response.raise_for_status(): raises unless the status is 2xx
raise_for_status(status_code) == status_code \div 100 # 2

\* the except clauses with one message for both transport failures
except_clauses_merged(exc) ==
    IF exc \in {"ConnectError", "TimeoutException"}
    THEN Text("ConnectFailure", NoData)
    ELSE Text("UnexpectedError", [detail |-> exc])

\* the except clauses without the closing `except Exception`
except_clauses_narrow(exc) ==
    IF exc = "ConnectError" THEN Text("ConnectFailure", NoData)
    ELSE IF exc = "TimeoutException" THEN Text("TimeoutFailure", NoData)
    ELSE Propagated(exc)

\* the three except clauses that close every tool function
except_clauses(exc) ==
    IF exc = "ConnectError" THEN Text("ConnectFailure", NoData)
    ELSE IF exc = "TimeoutException" THEN Text("TimeoutFailure", NoData)
    ELSE Text("UnexpectedError", [detail |-> exc])

\* the value the caller gets from a step that ends the invocation
Outcome(step) ==
    IF step.t = "return" THEN step.v ELSE except_clauses(step.exc)

\* what is remembered of a request that raised: the exception and the
\* number of the request in the log
Caught(r) ==
    IF r.t = "exc" THEN [t |-> "exc", exc |-> r.exc, at |-> Len(requests)]
    ELSE raised

\* one request leaving through the httpx client
Send(method, url, params, timeout) ==
    [method |-> method, url |-> url, params |-> params, timeout |-> timeout]

-----------------------------------------------------------------------------
(* search_tickets *)

\* a budget that is one status check short
max_polls_short == 20 - 1

\* a budget of forty status checks
max_polls_double == 2 * 20

\* a budget of two status checks
max_polls_two == 1 + 1

MAX_PER_PAGE == 100
\* a poll loop that runs once more
max_polls_extra == 20 + 1

max_polls == 20

SEARCH_URL == <<"api", "search", "double-reranked">>
status_url(tid) == <<"api", "search", "status", tid>>

PageVals == (0 - Margin)..(1 + Margin)
PerPageVals == ((0 - Margin)..(1 + Margin)) \cup
               ((MAX_PER_PAGE - Margin)..(MAX_PER_PAGE + Margin))

\* the call search_tickets("vpn"): every optional argument at its default
SearchDefaults ==
    [query |-> "vpn", page |-> 1, per_page |-> 10, start_date |-> "",
     end_date |-> "", sentiment |-> "", min_frustration |-> [has |-> FALSE],
     priority_only |-> FALSE]

\* the calls of the model: each argument varies around the default call
\* (min_frustration in tenths)
SearchArgs ==
    {[SearchDefaults EXCEPT !.page = p] : p \in PageVals} \cup
    {[SearchDefaults EXCEPT !.per_page = pp] : pp \in PerPageVals} \cup
    {[SearchDefaults EXCEPT !.page = 0 - Margin,
                            !.per_page = MAX_PER_PAGE + Margin],
     [SearchDefaults EXCEPT !.query = ""]} \cup
    {[SearchDefaults EXCEPT !.start_date = sd, !.end_date = ed] :
        sd \in {"", "2024-01-01"}, ed \in {"", "2024-12-31"}} \cup
    {[SearchDefaults EXCEPT !.sentiment = "negative", !.priority_only = po] :
        po \in BOOLEAN} \cup
    {[SearchDefaults EXCEPT !.min_frustration = mf] :
        mf \in Opt({0 - 5, 7, 15})}

\* per_page without its upper clamp
search_tickets_per_page_unclamped(per_page) ==
    IF per_page < 1 THEN 10 ELSE per_page

\* lines 103-109: pagination parameters
search_tickets_page(page) == IF page < 1 THEN 1 ELSE page
search_tickets_per_page(per_page) ==
    IF per_page < 1 THEN 10
    ELSE IF per_page > 100 THEN 100 ELSE per_page

\* lines 115-129: query parameters (min_frustration in tenths)
search_tickets_params(a) ==
    ("q" :> a.query) @@
    ("page" :> search_tickets_page(a.page)) @@
    ("per_page" :> search_tickets_per_page(a.per_page)) @@
    (IF a.start_date # "" THEN "start_date" :> a.start_date ELSE <<>>) @@
    (IF a.end_date # "" THEN "end_date" :> a.end_date ELSE <<>>) @@
    (IF a.sentiment # "" THEN "sentiment" :> a.sentiment ELSE <<>>) @@
    (IF a.min_frustration.has
        THEN "min_frustration" :> Str(a.min_frustration.v) ELSE <<>>) @@
    (IF a.priority_only THEN "priority_only" :> "true" ELSE <<>>)

\* lines 136-157: error checks on the first response
search_tickets_errors(status_code) ==
    IF status_code = 401 THEN Return(Text("AuthFailure", NoData))
    ELSE IF status_code = 404 THEN Return(Text("NotFound", NoData))
    ELSE IF status_code >= 500
        THEN Return(Text("ServerFailure", [code |-> status_code]))
    ELSE [t |-> "pass"]

\* the "still processing" payload without the job it speaks of
search_tickets_processing_anonymous(tid) ==
    Return(Text("StillProcessing",
                [status |-> "processing", task_id |-> None]))

\* lines 189-194: the "still processing" payload
search_tickets_processing(tid) ==
    Return(Text("StillProcessing",
                [status |-> "processing", task_id |-> tid]))

\* an empty result page reported as a missing resource
search_tickets_empty_not_found(query, pagination) ==
    Return(Text("NotFound", NoData))

\* lines 203-210: the payload of an empty result page
search_tickets_empty(query, pagination) ==
    Return(Text("Empty",
                [query |-> query, count |-> 0,
                 pagination |-> pagination, results |-> <<>>]))

\* the payload of a result page that never reports a cache hit
search_tickets_success_uncached(query, data, results, pagination) ==
    Return(Text("Success",
                [query |-> query, count |-> Len(results),
                 pagination |-> pagination,
                 filters |-> Get(data, "filters", EmptyDict),
                 cache_hit |-> FALSE,
                 results |-> results]))

\* lines 213-220: the payload of a result page
search_tickets_success(query, data, results, pagination) ==
    Return(Text("Success",
                [query |-> query, count |-> Len(results),
                 pagination |-> pagination,
                 filters |-> Get(data, "filters", EmptyDict),
                 cache_hit |-> Get(data, "cache_hit", FALSE),
                 results |-> results]))

\* lines 196-223: raise_for_status and the normalized payload
search_tickets_payload(query, r) ==
    IF raise_for_status(r.status_code) THEN Raise("HTTPStatusError")
    ELSE IF r.body.json = "invalid" THEN Raise("JSONDecodeError")
    ELSE IF r.body.json # "dict" THEN Raise("AttributeError")
    ELSE LET data == r.body.data
             results == Get(data, "results", <<>>)
             pagination == Get(data, "pagination", EmptyDict)
         IN  IF results = <<>>
             THEN search_tickets_empty(query, pagination)
             ELSE IF pagination.type # "dict" THEN Raise("AttributeError")
             ELSE search_tickets_success(query, data, results, pagination)

\* a failed job reported without the detail of the backend
search_tickets_job_failure_generic(status_data) ==
    Return(Text("JobFailure",
                [error |-> "Search task failed", details |-> "Unknown error"]))

\* lines 179-184: the payload of a failed job
search_tickets_job_failure(status_data) ==
    Return(Text("JobFailure",
                [error |-> "Search task failed",
                 details |-> Get(status_data, "error", "Unknown error")]))

\* the search sent again like the status check, without its params
retry_request_bare(rq) == Send("GET", rq.url, <<>>, rq.timeout)

\* line 177: the original search, sent again with the same url and params
retry_request(rq) == Send("GET", rq.url, rq.params, rq.timeout)

Finish(step) ==
    /\ pc' = "done"
    /\ result' = Outcome(step)

\* lines 101-134: clamp, build the query, send it
search_tickets(a) ==
    /\ pc = "idle"
    /\ tool' = "search_tickets"
    /\ args' = a
    /\ req' = Send("GET", SEARCH_URL, search_tickets_params(a), 60)
    /\ requests' = Append(requests, req')
    /\ pc' = "search_tickets:get"
    /\ UNCHANGED conc
    /\ UNCHANGED raised
    /\ UNCHANGED polled_code
    /\ UNCHANGED <<response, task_id, poll_attempt, sleeps, init_resp,
                   only_pending, last_status, last_error, statuses,
                   retry_resp, result>>

\* what is remembered of a status-check answer whose body leaves the loop
\* polling: its status code
Polled(r) ==
    IF r.t = "http" /\ r.body.json = "dict"
        /\ Get(r.body.data, "status", None) \notin {"SUCCESS", "FAILURE"}
    THEN r.status_code ELSE 0

\* every status but SUCCESS (tested first) read as a failure
is_failure_always(status) == TRUE

\* every status but PENDING (SUCCESS is tested first) read as a failure
is_failure_unless_pending(status) == status # "PENDING"

\* line 179: the job has failed
is_failure(status) == status = "FAILURE"

\* a deferral read into every "accepted"-like status
is_deferred_created(status_code) == status_code \in {201, 202}

\* line 160: the answer announces a deferred job
is_deferred(status_code) == status_code = 202

\* lines 134-163 (and 196-240 when the answer is not 202)
search_tickets_response(r) ==
    /\ pc = "search_tickets:get"
    /\ init_resp' = Seen(r)
    /\ IF r.t = "exc"
       THEN /\ Finish(Raise(r.exc))
            /\ UNCHANGED <<response, task_id>>
       ELSE /\ response' = r.status_code
            /\ LET err == search_tickets_errors(r.status_code) IN
               IF err.t = "return"
               THEN Finish(err) /\ UNCHANGED task_id
               ELSE IF is_deferred(r.status_code)
               THEN IF r.body.json = "invalid"
                    THEN Finish(Raise("JSONDecodeError")) /\ UNCHANGED task_id
                    ELSE IF r.body.json # "dict"
                    THEN Finish(Raise("AttributeError")) /\ UNCHANGED task_id
                    ELSE /\ task_id' = Get(r.body.data, "task_id", None)
                         /\ pc' = "search_tickets:sleep"
                         /\ UNCHANGED result
               ELSE Finish(search_tickets_payload(args.query, r))
                    /\ UNCHANGED task_id
    /\ UNCHANGED conc
    /\ raised' = Caught(r)
    /\ UNCHANGED polled_code
    /\ UNCHANGED <<tool, args, req, requests, poll_attempt, sleeps,
                   only_pending, last_status, last_error, statuses,
                   retry_resp>>

\* lines 170-171: the sleep is over, ask for the status of the job
search_tickets_poll ==
    /\ pc = "search_tickets:sleep"
    /\ sleeps' = sleeps + 1
    /\ requests' = Append(requests,
                          Send("GET", status_url(task_id), <<>>, 60))
    /\ pc' = "search_tickets:status"
    /\ UNCHANGED conc
    /\ UNCHANGED raised
    /\ polled_code' = 0
    /\ UNCHANGED <<tool, args, req, response, task_id, poll_attempt,
                   init_resp, only_pending, last_status, last_error,
                   statuses, retry_resp, result>>

\* lines 171-194: one answer of the job-status endpoint
search_tickets_status(r) ==
    /\ pc = "search_tickets:status"
    /\ IF r.t = "exc"
       THEN /\ Finish(Raise(r.exc))
            /\ UNCHANGED <<requests, poll_attempt, only_pending, last_status,
                           last_error, statuses>>
       ELSE IF r.body.json = "invalid"
       THEN /\ Finish(Raise("JSONDecodeError"))
            /\ UNCHANGED <<requests, poll_attempt, only_pending, last_status,
                           last_error, statuses>>
       ELSE IF r.body.json # "dict"
       THEN /\ Finish(Raise("AttributeError"))
            /\ UNCHANGED <<requests, poll_attempt, only_pending, last_status,
                           last_error, statuses>>
       ELSE LET status_data == r.body.data
                status == Get(status_data, "status", None)
            IN  /\ last_status' = status
                /\ last_error' = IF "error" \in DOMAIN status_data
                                  THEN [has |-> TRUE, v |-> status_data.error]
                                  ELSE [has |-> FALSE]
                /\ statuses' = statuses + 1
                /\ only_pending' =
                       (only_pending /\
                        status \in {"PENDING", "SUCCESS", "FAILURE"})
                /\ IF status = "SUCCESS"
                   THEN /\ requests' = Append(requests, retry_request(req))
                        /\ pc' = "search_tickets:retry"
                        /\ UNCHANGED <<poll_attempt, result>>
                   ELSE IF is_failure(status)
                   THEN /\ Finish(search_tickets_job_failure(status_data))
                        /\ UNCHANGED <<requests, poll_attempt>>
                   ELSE IF poll_attempt + 1 < max_polls
                   THEN /\ poll_attempt' = poll_attempt + 1
                        /\ pc' = "search_tickets:sleep"
                        /\ UNCHANGED <<requests, result>>
                   ELSE \* the loop is exhausted and `response` is still the
                        \* first answer, a 202: line 189 returns
                        /\ response = 202
                        /\ Finish(search_tickets_processing(task_id))
                        /\ UNCHANGED <<requests, poll_attempt>>
    /\ UNCHANGED conc
    /\ raised' = Caught(r)
    /\ polled_code' = Polled(r)
    /\ UNCHANGED <<tool, args, req, response, task_id, sleeps, init_resp,
                   retry_resp>>

\* lines 177-178 and 188-240: the answer to the re-issued search
search_tickets_retried(r) ==
    /\ pc = "search_tickets:retry"
    /\ retry_resp' = Seen(r)
    /\ IF r.t = "exc"
       THEN Finish(Raise(r.exc)) /\ UNCHANGED response
       ELSE /\ response' = r.status_code
            /\ IF r.status_code = 202
               THEN Finish(search_tickets_processing(task_id))
               ELSE Finish(search_tickets_payload(args.query, r))
    /\ UNCHANGED conc
    /\ raised' = Caught(r)
    /\ UNCHANGED polled_code
    /\ UNCHANGED <<tool, args, req, requests, task_id, poll_attempt, sleeps,
                   init_resp, only_pending, last_status, last_error,
                   statuses>>

-----------------------------------------------------------------------------
(* The tools that send one request *)

MAX_RELATED == 30
MAX_BATCH == 50

TicketIds == {12345}
BatchLens == (0..Margin) \cup ((MAX_BATCH - Margin)..(MAX_BATCH + Margin))
IdLists == {[i \in 1..n |-> 1000 + i] : n \in BatchLens}
NumberLists == {[i \in 1..n |-> "T20240101.0001"] : n \in BatchLens}

\* bodies of the detail / batch endpoints
ProxyBodies ==
    {NotJson, JsonArray} \cup
    {JsonObject(Field("error", e) @@ Field("total_found", n) @@
                Field("tickets", l)) :
        e \in Opt({"task_ids must be integers"}), n \in Opt({2}),
        l \in Opt({<<7, 5>>})}

\* bodies of the company / contact search endpoints
EntityBodies(key) ==
    {NotJson, JsonArray} \cup
    {JsonObject(Field("success", ok) @@ Field("error", e) @@ Field(key, l)) :
        ok \in Opt(BOOLEAN), e \in Opt({"bad match_type"}),
        l \in Opt({<<>>, <<7, 5>>})}
    \cup
    {JsonObject(("success" :> TRUE) @@ (key :> l) @@
                Field("pagination", p) @@ Field("filters", f)) :
        l \in {<<>>, <<7, 5>>}, p \in Opt(Paginations), f \in Opt(FilterEchoes)}

ProxyResponses ==
    {Failed(e) : e \in TransportErrors} \cup
    {Http(c, b) : c \in StatusCodes, b \in ProxyBodies}

EntityResponses(key) ==
    {Failed(e) : e \in TransportErrors} \cup
    {Http(c, b) : c \in StatusCodes, b \in EntityBodies(key)}

CompanyResponses == EntityResponses("companies")
ContactResponses == EntityResponses("contacts")

\* what is remembered of the answer of any other endpoint
SeenProxy(r) ==
    IF r.t = "exc" THEN r
    ELSE [t |-> "http", status_code |-> r.status_code, task_id |-> None,
          well_formed |-> r.body.json = "dict", page |-> PageOf(r)]

\* the call of a tool that sends its request at once
Call(name, a, request) ==
    /\ pc = "idle"
    /\ tool' = name
    /\ args' = a
    /\ req' = request
    /\ requests' = Append(requests, request)
    /\ pc' = name \o ":response"
    /\ UNCHANGED conc
    /\ UNCHANGED raised
    /\ UNCHANGED polled_code
    /\ UNCHANGED <<response, task_id, poll_attempt, sleeps, init_resp,
                   only_pending, last_status, last_error, statuses,
                   retry_resp, result>>

\* the call of a tool that returns before it sends anything
Reject(name, a, value) ==
    /\ pc = "idle"
    /\ tool' = name
    /\ args' = a
    /\ Finish(Return(value))
    /\ UNCHANGED conc
    /\ UNCHANGED raised
    /\ UNCHANGED polled_code
    /\ UNCHANGED <<req, requests, response, task_id, poll_attempt, sleeps,
                   init_resp, only_pending, last_status, last_error,
                   statuses, retry_resp>>

\* the answer to the only request of a tool, handled by `handle`
Answer(name, r, step) ==
    /\ pc = name \o ":response"
    /\ init_resp' = SeenProxy(r)
    /\ response' = IF r.t = "exc" THEN response ELSE r.status_code
    /\ Finish(IF r.t = "exc" THEN Raise(r.exc) ELSE step)
    /\ UNCHANGED conc
    /\ raised' = Caught(r)
    /\ UNCHANGED polled_code
    /\ UNCHANGED <<tool, args, req, requests, task_id, poll_attempt, sleeps,
                   only_pending, last_status, last_error, statuses,
                   retry_resp>>

\* the 400 clause of the batch tools (lines 361-367, 573-580, 923-929,
\* 1010-1016): the `error` of a JSON object, else the raw text
bad_request(body) ==
    IF body.json = "dict"
    THEN Return(Text("BadRequest",
                     [detail |-> Get(body.data, "error", "Invalid request")]))
    ELSE Return(Text("BadRequest", [detail |-> "response.text"]))

\* response.json() followed by json.dumps of the parsed value
dump_json(r) ==
    IF r.body.json = "invalid" THEN Raise("JSONDecodeError")
    ELSE Return(Text("Success", r.body))

\* response.json(), a data.get(...) for the log line, json.dumps
dump_object(r) ==
    IF r.body.json = "invalid" THEN Raise("JSONDecodeError")
    ELSE IF r.body.json # "dict" THEN Raise("AttributeError")
    ELSE Return(Text("Success", r.body))

(* get_ticket_details *)

\* lines 274-297
get_ticket_details_result(r) ==
    IF r.status_code = 401 THEN Return(Text("AuthFailure", NoData))
    ELSE IF r.status_code = 404 THEN Return(Text("NotFound", NoData))
    ELSE IF r.status_code >= 500
        THEN Return(Text("ServerFailure", [code |-> r.status_code]))
    ELSE IF raise_for_status(r.status_code) THEN Raise("HTTPStatusError")
    ELSE dump_json(r)

\* lines 262-272
get_ticket_details(tid) ==
    Call("get_ticket_details", [task_id |-> tid],
         Send("GET", <<"api", "ticket", ToString(tid)>>, <<>>, 30))

get_ticket_details_response(r) ==
    Answer("get_ticket_details", r,
           IF r.t = "exc" THEN r ELSE get_ticket_details_result(r))

(* get_tickets_details *)

\* lines 354-388
get_tickets_details_result(r) ==
    IF r.status_code = 401 THEN Return(Text("AuthFailure", NoData))
    ELSE IF r.status_code = 400 THEN bad_request(r.body)
    ELSE IF r.status_code = 404 THEN Return(Text("NotFound", NoData))
    ELSE IF r.status_code >= 500
        THEN Return(Text("ServerFailure", [code |-> r.status_code]))
    ELSE IF raise_for_status(r.status_code) THEN Raise("HTTPStatusError")
    ELSE dump_object(r)

\* get_tickets_details without its check for an empty list
get_tickets_details_unchecked(task_ids) ==
    IF Len(task_ids) > 50
    THEN Reject("get_tickets_details", [task_ids |-> task_ids],
                Text("ValidationError", [reason |-> "too many"]))
    ELSE Call("get_tickets_details", [task_ids |-> task_ids],
              Send("POST", <<"api", "tickets", "details">>,
                   [task_ids |-> task_ids], 60))

\* lines 332-352
get_tickets_details(task_ids) ==
    IF Len(task_ids) = 0
    THEN Reject("get_tickets_details", [task_ids |-> task_ids],
                Text("ValidationError", [reason |-> "empty"]))
    ELSE IF Len(task_ids) > 50
    THEN Reject("get_tickets_details", [task_ids |-> task_ids],
                Text("ValidationError", [reason |-> "too many"]))
    ELSE Call("get_tickets_details", [task_ids |-> task_ids],
              Send("POST", <<"api", "tickets", "details">>,
                   [task_ids |-> task_ids], 60))

get_tickets_details_response(r) ==
    Answer("get_tickets_details", r,
           IF r.t = "exc" THEN r ELSE get_tickets_details_result(r))

(* get_related_tickets *)

\* lines 438-444
get_related_tickets_per_page(per_page) ==
    IF per_page < 1 THEN 10
    ELSE IF per_page > 30 THEN 30 ELSE per_page

\* get_related_tickets without its check for a server error
get_related_tickets_result_no_5xx(r) ==
    IF r.status_code = 401 THEN Return(Text("AuthFailure", NoData))
    ELSE IF r.status_code = 404 THEN Return(Text("NotFound", NoData))
    ELSE IF raise_for_status(r.status_code) THEN Raise("HTTPStatusError")
    ELSE dump_object(r)

\* lines 458-481
get_related_tickets_result(r) ==
    IF r.status_code = 401 THEN Return(Text("AuthFailure", NoData))
    ELSE IF r.status_code = 404 THEN Return(Text("NotFound", NoData))
    ELSE IF r.status_code >= 500
        THEN Return(Text("ServerFailure", [code |-> r.status_code]))
    ELSE IF raise_for_status(r.status_code) THEN Raise("HTTPStatusError")
    ELSE dump_object(r)

RelatedPerPageVals == ((0 - Margin)..(1 + Margin)) \cup
                      ((MAX_RELATED - Margin)..(MAX_RELATED + Margin))

\* the query with the clamped page sent along
get_related_tickets_params_paged(page, per_page) ==
    [limit |-> get_related_tickets_per_page(per_page),
     page |-> IF page < 1 THEN 1 ELSE page]

\* line 451: the query carries the clamped per_page as `limit`, no page
get_related_tickets_params(page, per_page) ==
    [limit |-> get_related_tickets_per_page(per_page)]

\* lines 436-456
get_related_tickets(tid, page, per_page) ==
    Call("get_related_tickets",
         [task_id |-> tid, page |-> page, per_page |-> per_page],
         Send("GET", <<"api", "ticket", ToString(tid), "related">>,
              get_related_tickets_params(page, per_page), 30))

get_related_tickets_response(r) ==
    Answer("get_related_tickets", r,
           IF r.t = "exc" THEN r ELSE get_related_tickets_result(r))

(* get_tickets_notes *)

\* `not x` of an optional list
Falsy(l) == ~l.has \/ Len(l.v) = 0
\* `x or []`
OrEmpty(l) == IF Falsy(l) THEN <<>> ELSE l.v

\* lines 566-601
get_tickets_notes_result(r) ==
    IF r.status_code = 401 THEN Return(Text("AuthFailure", NoData))
    ELSE IF r.status_code = 400 THEN bad_request(r.body)
    ELSE IF r.status_code = 404 THEN Return(Text("NotFound", NoData))
    ELSE IF r.status_code >= 500
        THEN Return(Text("ServerFailure", [code |-> r.status_code]))
    ELSE IF raise_for_status(r.status_code) THEN Raise("HTTPStatusError")
    ELSE dump_object(r)

\* lines 555-560
get_tickets_notes_body(task_ids, task_numbers) ==
    (IF Len(task_ids) > 0 THEN "task_ids" :> task_ids ELSE <<>>) @@
    (IF Len(task_numbers) > 0 THEN "task_numbers" :> task_numbers ELSE <<>>)

\* lines 525-564
get_tickets_notes(task_ids, task_numbers) ==
    LET a == [task_ids |-> task_ids, task_numbers |-> task_numbers]
        ids == OrEmpty(task_ids)
        numbers == OrEmpty(task_numbers)
        total_requested == Len(ids) + Len(numbers)
    IN  IF Falsy(task_ids) /\ Falsy(task_numbers)
        THEN Reject("get_tickets_notes", a,
                    Text("ValidationError", [reason |-> "empty"]))
        ELSE IF total_requested > 50
        THEN Reject("get_tickets_notes", a,
                    Text("ValidationError", [reason |-> "too many"]))
        ELSE IF total_requested = 0
        THEN Reject("get_tickets_notes", a,
                    Text("ValidationError", [reason |-> "empty"]))
        ELSE Call("get_tickets_notes", a,
                  Send("POST", <<"api", "tickets", "notes">>,
                       get_tickets_notes_body(ids, numbers), 30))

get_tickets_notes_response(r) ==
    Answer("get_tickets_notes", r,
           IF r.t = "exc" THEN r ELSE get_tickets_notes_result(r))

(* search_companies and search_contacts *)

EntityDefaults ==
    [query |-> "", page |-> 1, per_page |-> 25, active_only |-> TRUE,
     match_type |-> "fuzzy", company_id |-> [has |-> FALSE]]

CompanyArgs ==
    {[EntityDefaults EXCEPT !.page = p] : p \in PageVals} \cup
    {[EntityDefaults EXCEPT !.per_page = pp] : pp \in PerPageVals} \cup
    {[EntityDefaults EXCEPT !.query = "acme", !.active_only = ao,
                            !.match_type = mt] :
        ao \in BOOLEAN, mt \in {"fuzzy", "exact"}}

ContactArgs ==
    CompanyArgs \cup
    {[EntityDefaults EXCEPT !.company_id = [has |-> TRUE, v |-> 77]]}

\* the per_page clamp with the default of search_tickets
search_entity_per_page_ten(per_page) ==
    IF per_page < 1 THEN 10
    ELSE IF per_page > 100 THEN 100 ELSE per_page

\* lines 652-658 and 782-788
search_entity_page(page) == IF page < 1 THEN 1 ELSE page
search_entity_per_page(per_page) ==
    IF per_page < 1 THEN 25
    ELSE IF per_page > 100 THEN 100 ELSE per_page

\* lines 664-672
search_companies_params(a) ==
    ("page" :> search_entity_page(a.page)) @@
    ("per_page" :> search_entity_per_page(a.per_page)) @@
    ("active_only" :> IF a.active_only THEN "true" ELSE "false") @@
    ("match_type" :> a.match_type) @@
    (IF a.query # "" THEN "q" :> a.query ELSE <<>>)

\* lines 794-805
search_contacts_params(a) ==
    search_companies_params(a) @@
    (IF a.company_id.has THEN "company_id" :> a.company_id.v ELSE <<>>)

\* lines 702-726 and 835-859: the payload of a 2xx answer
\* a body without `success` taken as a success
api_success_by_default(data) == Get(data, "success", TRUE)

\* lines 705 and 838: data.get('success')
api_success(data) == Get(data, "success", FALSE)

\* the error payload with the entities the backend sent left in it
search_entity_api_error_partial(data, key) ==
    Return(Text("ApiError",
           ("error" :> Get(data, "error", "Unknown error occurred"))
           @@ (key :> Get(data, key, <<>>)) @@ ("pagination" :> EmptyDict)
           @@ ("filters" :> EmptyDict)))

\* lines 705-712 and 838-845: the payload of a body without `success`
search_entity_api_error(data, key) ==
    Return(Text("ApiError",
           ("error" :> Get(data, "error", "Unknown error occurred"))
           @@ (key :> <<>>) @@ ("pagination" :> EmptyDict)
           @@ ("filters" :> EmptyDict)))

search_entity_payload(query, key, r) ==
    IF r.body.json = "invalid" THEN Raise("JSONDecodeError")
    ELSE IF r.body.json # "dict" THEN Raise("AttributeError")
    ELSE LET data == r.body.data
             entities == Get(data, key, <<>>)
             pagination == Get(data, "pagination", EmptyDict)
         IN  IF ~api_success(data)
             THEN search_entity_api_error(data, key)
             ELSE IF pagination.type # "dict" THEN Raise("AttributeError")
             ELSE Return(Text("Success",
                    ("query" :> query) @@ ("count" :> Len(entities)) @@
                    ("pagination" :> pagination) @@
                    ("filters" :> Get(data, "filters", EmptyDict)) @@
                    (key :> entities)))

\* lines 679-726
search_companies_result(query, r) ==
    IF r.status_code = 401 THEN Return(Text("AuthFailure", NoData))
    ELSE IF r.status_code = 404 THEN Return(Text("NotFound", NoData))
    ELSE IF r.status_code >= 500
        THEN Return(Text("ServerFailure", [code |-> r.status_code]))
    ELSE IF raise_for_status(r.status_code) THEN Raise("HTTPStatusError")
    ELSE search_entity_payload(query, "companies", r)

\* lines 812-859
search_contacts_result(query, r) ==
    IF r.status_code = 401 THEN Return(Text("AuthFailure", NoData))
    ELSE IF r.status_code = 404 THEN Return(Text("NotFound", NoData))
    ELSE IF r.status_code >= 500
        THEN Return(Text("ServerFailure", [code |-> r.status_code]))
    ELSE IF raise_for_status(r.status_code) THEN Raise("HTTPStatusError")
    ELSE search_entity_payload(query, "contacts", r)

\* lines 650-677
search_companies(a) ==
    Call("search_companies", a,
         Send("GET", <<"api", "companies", "search">>,
              search_companies_params(a), 30))

search_companies_response(r) ==
    Answer("search_companies", r,
           IF r.t = "exc" THEN r ELSE search_companies_result(args.query, r))

\* lines 780-810
search_contacts(a) ==
    Call("search_contacts", a,
         Send("GET", <<"api", "contacts", "search">>,
              search_contacts_params(a), 30))

search_contacts_response(r) ==
    Answer("search_contacts", r,
           IF r.t = "exc" THEN r ELSE search_contacts_result(args.query, r))

(* get_tickets_company and get_tickets_contact *)

\* lines 918-949
get_tickets_company_result(r) ==
    IF r.status_code = 401 THEN Return(Text("AuthFailure", NoData))
    ELSE IF r.status_code = 400 THEN bad_request(r.body)
    ELSE IF r.status_code = 404 THEN Return(Text("NotFound", NoData))
    ELSE IF r.status_code >= 500
        THEN Return(Text("ServerFailure", [code |-> r.status_code]))
    ELSE IF raise_for_status(r.status_code) THEN Raise("HTTPStatusError")
    ELSE dump_object(r)

\* get_tickets_company with the size check off by one
get_tickets_company_off_by_one(company_ids) ==
    IF Len(company_ids) = 0
    THEN Reject("get_tickets_company", [company_ids |-> company_ids],
                Text("ValidationError", [reason |-> "empty"]))
    ELSE IF Len(company_ids) >= 50
    THEN Reject("get_tickets_company", [company_ids |-> company_ids],
                Text("ValidationError", [reason |-> "too many"]))
    ELSE Call("get_tickets_company", [company_ids |-> company_ids],
              Send("POST", <<"api", "tickets", "by-company">>,
                   [company_ids |-> company_ids], 60))

\* lines 896-916
get_tickets_company(company_ids) ==
    IF Len(company_ids) = 0
    THEN Reject("get_tickets_company", [company_ids |-> company_ids],
                Text("ValidationError", [reason |-> "empty"]))
    ELSE IF Len(company_ids) > 50
    THEN Reject("get_tickets_company", [company_ids |-> company_ids],
                Text("ValidationError", [reason |-> "too many"]))
    ELSE Call("get_tickets_company", [company_ids |-> company_ids],
              Send("POST", <<"api", "tickets", "by-company">>,
                   [company_ids |-> company_ids], 60))

get_tickets_company_response(r) ==
    Answer("get_tickets_company", r,
           IF r.t = "exc" THEN r ELSE get_tickets_company_result(r))

\* lines 1005-1036
get_tickets_contact_result(r) ==
    IF r.status_code = 401 THEN Return(Text("AuthFailure", NoData))
    ELSE IF r.status_code = 400 THEN bad_request(r.body)
    ELSE IF r.status_code = 404 THEN Return(Text("NotFound", NoData))
    ELSE IF r.status_code >= 500
        THEN Return(Text("ServerFailure", [code |-> r.status_code]))
    ELSE IF raise_for_status(r.status_code) THEN Raise("HTTPStatusError")
    ELSE dump_object(r)

\* lines 983-1003
get_tickets_contact(contact_ids) ==
    IF Len(contact_ids) = 0
    THEN Reject("get_tickets_contact", [contact_ids |-> contact_ids],
                Text("ValidationError", [reason |-> "empty"]))
    ELSE IF Len(contact_ids) > 50
    THEN Reject("get_tickets_contact", [contact_ids |-> contact_ids],
                Text("ValidationError", [reason |-> "too many"]))
    ELSE Call("get_tickets_contact", [contact_ids |-> contact_ids],
              Send("POST", <<"api", "tickets", "by-contact">>,
                   [contact_ids |-> contact_ids], 60))

get_tickets_contact_response(r) ==
    Answer("get_tickets_contact", r,
           IF r.t = "exc" THEN r ELSE get_tickets_contact_result(r))

-----------------------------------------------------------------------------
(* search_tickets as a coroutine: several invocations in flight *)

\* the invocations in flight on the event loop
Invocations == {"A", "B"}

\* lines 35 and 39-45: API_KEY as the import leaves it
ImportedKey == "secret"

\* the calls, the answers of the search endpoint and the answers of the
\* job-status endpoint that the concurrent invocations meet
ConcArgs ==
    {SearchDefaults,
     [SearchDefaults EXCEPT !.query = "printer", !.per_page = 0]}
ConcSearchResponses ==
    {Http(200, JsonObject("results" :> <<2, 1, 3>>)),
     Http(202, JsonObject("task_id" :> "t1")),
     Http(401, NotJson)}
ConcStatusResponses ==
    {Http(200, JsonObject("status" :> s)) :
        s \in {"PENDING", "SUCCESS", "FAILURE"}}
    \cup {Failed("TimeoutException")}

\* what an invocation is given: its call, the end of a sleep, an answer
CallOf(a) == [t |-> "call", args |-> a]
Woke == [t |-> "woke"]

\* the frame of a coroutine that has not been called
IdleFrame ==
    [pc |-> "idle", args |-> <<>>, headers |-> <<>>, req |-> <<>>,
     requests |-> <<>>, response |-> 0, task_id |-> None,
     poll_attempt |-> 0, result |-> [type |-> "none"]]

\* every invocation working on the locals of invocation A
LocalsOfFirst(fr, i) == fr["A"]

\* lines 63-134: the locals an invocation works on are those of its own frame
Locals(fr, i) == fr[i]

\* lines 101-134: clamp, build headers and query, send
co_start(a, key) ==
    LET rq == Send("GET", SEARCH_URL, search_tickets_params(a), 60) IN
    [IdleFrame EXCEPT !.pc = "search_tickets:get", !.args = a,
                      !.headers = [Authorization |-> <<"Bearer", key>>],
                      !.req = rq, !.requests = <<rq>>]

\* a return, or an exception caught by the except clauses (lines 225-240)
co_finish(f, step) == [f EXCEPT !.pc = "done", !.result = Outcome(step)]

\* lines 134-163 (and 196-223 when the answer is not 202)
co_response(f, r) ==
    IF r.t = "exc" THEN co_finish(f, Raise(r.exc))
    ELSE LET g == [f EXCEPT !.response = r.status_code]
             err == search_tickets_errors(r.status_code)
         IN  IF err.t = "return" THEN co_finish(g, err)
             ELSE IF is_deferred(r.status_code)
             THEN IF r.body.json = "invalid"
                  THEN co_finish(g, Raise("JSONDecodeError"))
                  ELSE IF r.body.json # "dict"
                  THEN co_finish(g, Raise("AttributeError"))
                  ELSE [g EXCEPT !.task_id = Get(r.body.data, "task_id", None),
                                 !.pc = "search_tickets:sleep"]
             ELSE co_finish(g, search_tickets_payload(f.args.query, r))

\* lines 170-171: the sleep is over, ask for the status of the job
co_poll(f) ==
    [f EXCEPT !.requests = Append(@, Send("GET", status_url(f.task_id),
                                          <<>>, 60)),
              !.pc = "search_tickets:status"]

\* lines 171-194: one answer of the job-status endpoint
co_status(f, r) ==
    IF r.t = "exc" THEN co_finish(f, Raise(r.exc))
    ELSE IF r.body.json = "invalid"
    THEN co_finish(f, Raise("JSONDecodeError"))
    ELSE IF r.body.json # "dict" THEN co_finish(f, Raise("AttributeError"))
    ELSE LET status_data == r.body.data
             status == Get(status_data, "status", None)
         IN  IF status = "SUCCESS"
             THEN [f EXCEPT !.requests = Append(@, retry_request(f.req)),
                            !.pc = "search_tickets:retry"]
             ELSE IF is_failure(status)
             THEN co_finish(f, search_tickets_job_failure(status_data))
             ELSE IF f.poll_attempt + 1 < max_polls
             THEN [f EXCEPT !.poll_attempt = @ + 1,
                            !.pc = "search_tickets:sleep"]
             ELSE co_finish(f, search_tickets_processing(f.task_id))

\* lines 177-178 and 188-223: the answer to the re-issued search
co_retried(f, r) ==
    IF r.t = "exc" THEN co_finish(f, Raise(r.exc))
    ELSE LET g == [f EXCEPT !.response = r.status_code] IN
         IF r.status_code = 202
         THEN co_finish(g, search_tickets_processing(f.task_id))
         ELSE co_finish(g, search_tickets_payload(f.args.query, r))

\* the coroutine runs from one await to the next on the value `x` it is given
co_resume(f, x, key) ==
    IF f.pc = "idle" /\ x.t = "call" THEN co_start(x.args, key)
    ELSE IF f.pc = "search_tickets:get" /\ x.t \in {"http", "exc"}
    THEN co_response(f, x)
    ELSE IF f.pc = "search_tickets:sleep" /\ x.t = "woke" THEN co_poll(f)
    ELSE IF f.pc = "search_tickets:status" /\ x.t \in {"http", "exc"}
    THEN co_status(f, x)
    ELSE IF f.pc = "search_tickets:retry" /\ x.t \in {"http", "exc"}
    THEN co_retried(f, x)
    ELSE f

\* the event loop gives invocation i the value x and runs it to its next
\* await; nothing but the frame of the invocation changes
conc_step(i, x) ==
    /\ frames' = [frames EXCEPT
                     ![i] = co_resume(Locals(frames, i), x, API_KEY)]
    /\ inputs' = [inputs EXCEPT ![i] = Append(@, x)]
    /\ UNCHANGED <<API_KEY, seq>>

\* a caller invokes the tool
conc_call(i, a) == frames[i].pc = "idle" /\ conc_step(i, CallOf(a))

\* asyncio.sleep(3) of invocation i ends
conc_wake(i) == frames[i].pc = "search_tickets:sleep" /\ conc_step(i, Woke)

\* the backend answers the request invocation i is waiting on
conc_answer(i, r) ==
    /\ frames[i].pc \in {"search_tickets:get", "search_tickets:status",
                         "search_tickets:retry"}
    /\ r \in (IF frames[i].pc = "search_tickets:status"
              THEN ConcStatusResponses ELSE ConcSearchResponses)
    /\ conc_step(i, r)

-----------------------------------------------------------------------------

Init ==
    /\ pc = "idle"
    /\ tool = ""
    /\ args = <<>>
    /\ req = <<>>
    /\ requests = <<>>
    /\ response = 0
    /\ task_id = None
    /\ poll_attempt = 0
    /\ sleeps = 0
    /\ init_resp = NoResponse
    /\ only_pending = TRUE
    /\ last_status = None
    /\ last_error = [has |-> FALSE]
    /\ statuses = 0
    /\ retry_resp = NoResponse
    /\ result = [type |-> "none"]
    /\ raised = NoResponse
    /\ polled_code = 0
    /\ API_KEY = ImportedKey
    /\ frames = [i \in Invocations |-> IdleFrame]
    /\ inputs = [i \in Invocations |-> <<>>]

Next ==
    \/ /\ pc = "idle"
       /\ \E a \in SearchArgs : search_tickets(a)
    \/ /\ pc = "search_tickets:get"
       /\ \E r \in SearchResponses : search_tickets_response(r)
    \/ search_tickets_poll
    \/ /\ pc = "search_tickets:status"
       /\ \E r \in StatusResponses : search_tickets_status(r)
    \/ /\ pc = "search_tickets:retry"
       /\ \E r \in SearchResponses : search_tickets_retried(r)
    \/ /\ pc = "idle"
       /\ \E tid \in TicketIds : get_ticket_details(tid)
    \/ /\ pc = "get_ticket_details:response"
       /\ \E r \in ProxyResponses : get_ticket_details_response(r)
    \/ /\ pc = "idle"
       /\ \E ids \in IdLists : get_tickets_details(ids)
    \/ /\ pc = "get_tickets_details:response"
       /\ \E r \in ProxyResponses : get_tickets_details_response(r)
    \/ /\ pc = "idle"
       /\ \E tid \in TicketIds, p \in PageVals, pp \in RelatedPerPageVals :
            get_related_tickets(tid, p, pp)
    \/ /\ pc = "get_related_tickets:response"
       /\ \E r \in ProxyResponses : get_related_tickets_response(r)
    \/ /\ pc = "idle"
       /\ \E ids \in Opt(IdLists), numbers \in Opt(NumberLists) :
            get_tickets_notes(ids, numbers)
    \/ /\ pc = "get_tickets_notes:response"
       /\ \E r \in ProxyResponses : get_tickets_notes_response(r)
    \/ /\ pc = "idle"
       /\ \E a \in CompanyArgs : search_companies(a)
    \/ /\ pc = "search_companies:response"
       /\ \E r \in CompanyResponses : search_companies_response(r)
    \/ /\ pc = "idle"
       /\ \E a \in ContactArgs : search_contacts(a)
    \/ /\ pc = "search_contacts:response"
       /\ \E r \in ContactResponses : search_contacts_response(r)
    \/ /\ pc = "idle"
       /\ \E ids \in IdLists : get_tickets_company(ids)
    \/ /\ pc = "get_tickets_company:response"
       /\ \E r \in ProxyResponses : get_tickets_company_response(r)
    \/ /\ pc = "idle"
       /\ \E ids \in IdLists : get_tickets_contact(ids)
    \/ /\ pc = "get_tickets_contact:response"
       /\ \E r \in ProxyResponses : get_tickets_contact_response(r)

Spec == Init /\ [][Next]_vars

\* WF: the event loop resumes a coroutine once what it awaits completes, and
\* every request and every sleep completes (the client's timeout ends a
\* request that gets no answer)
LiveSpec == Spec /\ WF_vars(Next)

\* the event loop runs one invocation at a time, from await to await, in
\* any order
ConcNext ==
    \/ \E i \in Invocations : \E a \in ConcArgs : conc_call(i, a)
    \/ \E i \in Invocations : conc_wake(i)
    \/ \E i \in Invocations :
          \E r \in ConcSearchResponses \cup ConcStatusResponses :
             conc_answer(i, r)

ConcSpec == Init /\ [][ConcNext]_vars

\* one invocation of search_tickets, called with one of two argument lists
\* and answered in every way the backend can
PollNext ==
    \/ /\ pc = "idle"
       /\ \E a \in ConcArgs : search_tickets(a)
    \/ /\ pc = "search_tickets:get"
       /\ \E r \in SearchResponses : search_tickets_response(r)
    \/ /\ pc = "search_tickets:sleep"
       /\ search_tickets_poll
    \/ /\ pc = "search_tickets:status"
       /\ \E r \in StatusResponses : search_tickets_status(r)
    \/ /\ pc = "search_tickets:retry"
       /\ \E r \in SearchResponses : search_tickets_retried(r)

\* WF: every request and every sleep of the invocation completes and the
\* event loop resumes the coroutine
PollSpec == Init /\ [][PollNext]_vars /\ WF_vars(PollNext)

-----------------------------------------------------------------------------
(* Vocabulary of the properties *)

Done == pc = "done"

AllTools == {"search_tickets", "get_ticket_details", "get_tickets_details",
             "get_related_tickets", "get_tickets_notes", "search_companies",
             "search_contacts", "get_tickets_company", "get_tickets_contact"}
BatchTools == {"get_tickets_details", "get_tickets_notes",
               "get_tickets_company", "get_tickets_contact"}
PagedSearchTools == {"search_tickets", "search_companies", "search_contacts"}

IsStatusCheck(rq) == Len(rq.url) = 4 /\ rq.url[3] = "status"
IsSearch(rq) == rq.url = SEARCH_URL

StatusChecks == {i \in DOMAIN requests : IsStatusCheck(requests[i])}
Searches == {i \in DOMAIN requests : IsSearch(requests[i])}

\* the first answer of the backend
InitialStatus(code) == init_resp.t = "http" /\ init_resp.status_code = code
InitialError(e) == init_resp.t = "exc" /\ init_resp.exc = e

\* search_tickets was told 202 with a JSON object as body
Deferred ==
    /\ tool = "search_tickets"
    /\ InitialStatus(202)
    /\ init_resp.well_formed

\* number of identifiers a batch tool was called with
ListLen(l) == IF l.has THEN Len(l.v) ELSE 0
Requested ==
    IF tool = "get_tickets_details" THEN Len(args.task_ids)
    ELSE IF tool = "get_tickets_notes"
        THEN ListLen(args.task_ids) + ListLen(args.task_numbers)
    ELSE IF tool = "get_tickets_company" THEN Len(args.company_ids)
    ELSE Len(args.contact_ids)

Rejected == Done /\ result.kind = "ValidationError" /\ requests = <<>>

-----------------------------------------------------------------------------
(* Properties *)

\* C1: a 202 followed by 20 consecutive PENDING statuses ends the invocation
\* with the "processing" payload carrying the task_id of the 202 body, after
\* exactly 20 status checks and with the search sent only once.
C1_StillProcessing ==
    (Deferred /\ statuses = 20 /\ only_pending /\ last_status = "PENDING")
    => /\ Done
       /\ result = Text("StillProcessing",
                        [status |-> "processing",
                         task_id |-> init_resp.task_id])
       /\ Cardinality(StatusChecks) = 20
       /\ Cardinality(Searches) = 1

C1_Witness ==
    /\ Deferred /\ statuses = 20 /\ only_pending /\ last_status = "PENDING"
    /\ init_resp.task_id = "t1"
    /\ Done /\ result.kind = "StillProcessing"

C3_JobFailure ==
    (Deferred /\ only_pending /\ last_status = "FAILURE")
    => /\ Done
       /\ result.kind = "JobFailure"
       /\ last_error.has => result.data.details = last_error.v
       /\ Cardinality(StatusChecks) = statuses
       /\ Len(requests) = statuses + 1
       /\ Cardinality(Searches) = 1

C3_Witness ==
    /\ Deferred /\ only_pending /\ last_status = "FAILURE"
    /\ statuses = 3
    /\ last_error.has
    /\ Done /\ result.kind = "JobFailure"

\* C4: once a status check has answered SUCCESS the invocation never ends
\* with the "still processing" payload, whatever the re-issued search answers.
C4_SuccessNeverProcessing ==
    (tool = "search_tickets" /\ Done /\ last_status = "SUCCESS")
    => result.kind # "StillProcessing"

\* C5: for each of the nine tools a first answer of 401 gives AuthFailure, 404
\* NotFound, 500 or 503 ServerFailure naming the status code, a refused
\* connection ConnectFailure and a timeout TimeoutFailure.
C5_StatusClasses ==
    (Done /\ tool \in AllTools)
    => /\ InitialStatus(401) => result.kind = "AuthFailure"
       /\ InitialStatus(404) => result.kind = "NotFound"
       /\ \A code \in {500, 503} :
            InitialStatus(code)
            => result = Text("ServerFailure", [code |-> code])
       /\ InitialError("ConnectError") => result.kind = "ConnectFailure"
       /\ InitialError("TimeoutException") => result.kind = "TimeoutFailure"

C5_Witness ==
    /\ Done /\ tool = "get_related_tickets"
    /\ InitialStatus(503)
    /\ result = Text("ServerFailure", [code |-> 503])

\* C6: for every tool an answer of 400 gives BadRequest, never
\* UnexpectedError.
C6_BadRequest ==
    (Done /\ tool \in AllTools /\ InitialStatus(400))
    => result.kind = "BadRequest"

\* C7: every invocation of every tool ends, and it ends by returning a
\* string: no failure at any request leaves the tool as an exception.
C7_ReturnsString ==
    /\ [](Done => result.type = "str")
    /\ <>Done

C7_Witness ==
    /\ Done /\ tool = "search_tickets"
    /\ retry_resp.t = "exc" /\ retry_resp.exc = "ReadError"
    /\ result = Text("UnexpectedError", [detail |-> "ReadError"])

\* C8: a batch tool called with more than 50 identifiers (get_tickets_notes:
\* both lists together) returns a ValidationError without sending a request;
\* called with 1..50 identifiers it is not rejected and sends exactly one.
C8_BatchLimit ==
    (tool \in BatchTools)
    => /\ Requested > 50 => Rejected
       /\ Requested \in 1..50
            => /\ Len(requests) = 1
               /\ result.type = "str" => result.kind # "ValidationError"

C8_Witness ==
    /\ tool = "get_tickets_notes"
    /\ ListLen(args.task_ids) = 50 /\ ListLen(args.task_numbers) = 1
    /\ Rejected

\* C9: get_tickets_notes with both lists empty or absent, and a single-list
\* batch tool with an empty list, return a ValidationError without sending a
\* request.
C9_EmptyBatch ==
    (tool \in BatchTools /\ Requested = 0) => Rejected

C9_Witness ==
    /\ tool = "get_tickets_notes"
    /\ args.task_ids.has /\ Len(args.task_ids.v) = 0
    /\ ~args.task_numbers.has
    /\ Rejected

\* C10: search_tickets, search_companies and search_contacts reject no page
\* or per_page: the request is sent, with page >= 1 and per_page in 1..100.
C10_PaginationInRange ==
    (tool \in PagedSearchTools)
    => /\ requests # <<>>
       /\ result.type = "str" => result.kind # "ValidationError"
       /\ \A i \in DOMAIN requests :
            ~IsStatusCheck(requests[i])
            => /\ requests[i].params.page >= 1
               /\ requests[i].params.per_page \in 1..100

C10_Witness ==
    /\ tool = "search_contacts"
    /\ args.per_page > 100 /\ requests[1].params.per_page = 100

\* the default per_page of a paged search tool (its signature)
DefaultPerPage == IF tool = "search_tickets" THEN 10 ELSE 25

\* C11 as stated: every out-of-range page or per_page is sent as the nearest
\* boundary of its range: page below 1 as 1, per_page below 1 as 1, per_page
\* above 100 as 100.
C11_NearestBoundary ==
    (tool \in PagedSearchTools /\ requests # <<>>)
    => /\ args.page < 1 => requests[1].params.page = 1
       /\ args.per_page < 1 => requests[1].params.per_page = 1
       /\ args.per_page > 100 => requests[1].params.per_page = 100

\* C11 amended: page below 1 is sent as 1 and per_page above 100 as 100, but
\* per_page below 1 is sent as the default per_page of the tool (10 for
\* search_tickets, 25 for search_companies and search_contacts).
C11_BoundaryOrDefault ==
    (tool \in PagedSearchTools /\ requests # <<>>)
    => /\ args.page < 1 => requests[1].params.page = 1
       /\ args.per_page < 1 => requests[1].params.per_page = DefaultPerPage
       /\ args.per_page > 100 => requests[1].params.per_page = 100

C11_Witness ==
    /\ tool = "search_companies"
    /\ args.per_page < 1 /\ requests[1].params.per_page = 25

\* C12: when search_tickets sends min_frustration, the value sent lies in
\* [0.0, 1.0] (0..10 in tenths).
C12_FrustrationInRange ==
    (tool = "search_tickets" /\ requests # <<>>
        /\ "min_frustration" \in DOMAIN requests[1].params)
    => \E v \in 0..10 : requests[1].params.min_frustration = Str(v)

\* the last answer of the search endpoint: the initial one, or the answer to
\* the re-issued search
Final == IF retry_resp.t = "none" THEN init_resp ELSE retry_resp

\* search_tickets has ended on a `code` answer of the search endpoint that
\* carried a JSON object
Page(code) ==
    /\ Done /\ tool = "search_tickets"
    /\ Final.t = "http" /\ Final.status_code = code /\ Final.page # <<>>

\* the fields of the payload of a result page
PayloadFields ==
    {"query", "count", "pagination", "filters", "cache_hit", "results"}

\* C13: a 200 answer of search_tickets whose `results` is empty or absent,
\* received at once or after the re-issue, gives a payload with count 0 and
\* an empty results sequence, never NotFound or another error.
C13_EmptyIsNotAnError ==
    (Page(200) /\ Get(Final.page[1], "results", <<>>) = <<>>)
    => /\ result.type = "str" /\ result.kind = "Empty"
       /\ result.data.count = 0 /\ result.data.results = <<>>

C13_Witness ==
    /\ Page(200) /\ "results" \notin DOMAIN Final.page[1]
    /\ retry_resp.t = "http" /\ result.kind = "Empty"

\* C14: the payload of an Empty outcome of search_tickets has the fields of
\* a Success payload: query, count, pagination, filters, cache_hit, results.
C14_EmptySameShape ==
    (Done /\ tool = "search_tickets" /\ result.kind = "Empty")
    => DOMAIN result.data = PayloadFields

PassThroughTools == AllTools \ PagedSearchTools

\* the JSON object a returned string encodes; empty when it encodes none
Payload ==
    IF "json" \in DOMAIN result.data
    THEN (IF result.data.json = "dict" THEN result.data.data ELSE <<>>)
    ELSE result.data

\* the keys under which a payload carries a result sequence
ResultKeys == {"results", "companies", "contacts", "tickets"}

CarriesError ==
    result.kind \notin {"Success", "Empty"} \/ "error" \in DOMAIN Payload
CarriesResults ==
    \E k \in ResultKeys \cap DOMAIN Payload : Payload[k] # <<>>

\* the outcome is the body of a 2xx answer handed on by a pass-through tool
Verbatim == tool \in PassThroughTools /\ result.kind = "Success"

\* C16 as stated: no outcome of any tool carries an error indication
\* together with a non-empty result sequence.
C16_NoPartialResults == Done => ~(CarriesError /\ CarriesResults)

\* C16 amended: every outcome this layer assembles (the error outcomes of
\* all tools and the payloads of search_tickets, search_companies and
\* search_contacts) is a full success or a pure failure; the body handed on
\* by a pass-through tool is excepted.
C16_NoPartialResultsAssembled ==
    (Done /\ ~Verbatim) => ~(CarriesError /\ CarriesResults)

C16_Witness ==
    /\ Done /\ tool = "search_companies" /\ result.kind = "ApiError"
    /\ init_resp.page # <<>>
    /\ Get(init_resp.page[1], "companies", <<>>) # <<>>
    /\ result.data.companies = <<>>

\* C17: an invocation sends more than one request only if it is
\* search_tickets and its first answer had status 202; every other tool
\* sends at most one request, and search_tickets asks for the status of a
\* job only after a first answer of 202.
C17_FireOnce ==
    /\ Len(requests) > 1 => (tool = "search_tickets" /\ InitialStatus(202))
    /\ tool \in AllTools \ {"search_tickets"} => Len(requests) <= 1
    /\ StatusChecks # {} => InitialStatus(202)

C17_Witness ==
    /\ Done /\ tool = "search_tickets" /\ InitialStatus(202)
    /\ Len(requests) > 2 /\ StatusChecks # {}

\* the job statuses read so far are exactly <<PENDING, PENDING, SUCCESS>>
PendingPendingSuccess ==
    /\ Deferred /\ only_pending
    /\ statuses = 3 /\ last_status = "SUCCESS"

\* C19 as stated: after a 202 and the statuses PENDING, PENDING, SUCCESS the
\* search is re-issued after exactly 2 status checks.
C19_TwoChecksBeforeRetry ==
    PendingPendingSuccess => Cardinality(StatusChecks) = 2

\* C19 amended: each status of the sequence answers one check, so the
\* search is re-issued once, after exactly 3 status checks; after the two
\* PENDING answers nothing is re-issued and the invocation does not end
\* before a third check is sent.
C19_ThreeChecksBeforeRetry ==
    /\ PendingPendingSuccess
       => /\ Len(requests) = 5
          /\ StatusChecks = {2, 3, 4}
          /\ Searches = {1, 5}
          /\ sleeps = 3
    /\ (Deferred /\ only_pending /\ statuses = 2 /\ last_status = "PENDING")
       => /\ Searches = {1}
          /\ Done => (StatusChecks = {2, 3, 4}
                       /\ result.kind # "StillProcessing")

C19_Witness ==
    /\ PendingPendingSuccess /\ Done
    /\ result.kind \in {"Success", "Empty"}
    /\ Cardinality(StatusChecks) = 3

\* the statuses of the backend that no clause of the tools names
Unenumerated ==
    {c \in StatusCodes : c \notin {200, 202, 400, 401, 404} /\ c < 500}

\* the invocation has ended on an answer of its endpoint with status `code`
EndedOn(code) == Done /\ Final.t = "http" /\ Final.status_code = code

RECURSIVE Replay(_, _)
Replay(f, h) ==
    IF h = <<>> THEN f
    ELSE Replay(co_resume(f, Head(h), ImportedKey), Tail(h))

InFlight(i) == frames[i].pc \notin {"idle", "done"}

ClassTimeout == IF tool \in BatchTools \cup {"search_tickets"} THEN 60 ELSE 30

\* C21: every request is sent with the timeout of its operation class: 30 s
\* for the single-item tools, 60 s for the four batch tools and for
\* search_tickets.
C21_ClassTimeout ==
    \A i \in DOMAIN requests : requests[i].timeout = ClassTimeout

\* C22: for every page and per_page given to get_related_tickets the request
\* carries `limit`, the clamped per_page, within 1..30, and nothing of page.
C22_RelatedLimit ==
    (tool = "get_related_tickets" /\ requests # <<>>)
    => LET params == requests[1].params IN
       /\ DOMAIN params = {"limit"}
       /\ params.limit \in 1..30
       /\ args.per_page \in 1..30 => params.limit = args.per_page
       /\ args.per_page < 1 => params.limit = 10
       /\ args.per_page > 30 => params.limit = 30
       /\ requests[1].url = <<"api", "ticket", ToString(args.task_id),
                              "related">>

C22_Witness ==
    /\ tool = "get_related_tickets" /\ Len(requests) = 1
    /\ args.page < 1 /\ args.per_page > 30
    /\ requests[1].params = [limit |-> 30]

\* the answer to the re-issued search had status `code`
RetriedStatus(code) ==
    /\ Done /\ tool = "search_tickets"
    /\ retry_resp.t = "http" /\ retry_resp.status_code = code

\* C23: the answer to the search re-issued after SUCCESS is classified like
\* a first answer: 401 gives AuthFailure, 404 NotFound, >= 500
\* ServerFailure.
C23_RetryClassified ==
    /\ RetriedStatus(401) => result.kind = "AuthFailure"
    /\ RetriedStatus(404) => result.kind = "NotFound"
    /\ \A c \in {s \in StatusCodes : s >= 500} :
          RetriedStatus(c) => result.kind = "ServerFailure"

\* the outcomes of an exception caught by the except clauses
ErrorKinds == {"ConnectFailure", "TimeoutFailure", "UnexpectedError"}

\* the latest status read was neither SUCCESS nor FAILURE
NonTerminal ==
    /\ tool = "search_tickets" /\ statuses >= 1
    /\ last_status \notin {"SUCCESS", "FAILURE"}

\* C24: a status-check body whose status is neither SUCCESS nor FAILURE
\* (PENDING, another value, none) keeps the loop polling and uses up one of
\* the 20 attempts: after k < 20 such bodies the loop is in its k-th
\* iteration (counted from 0) and does not end unless a later request
\* raises; only the 20th ends it, as "processing".
C24_NonTerminalKeepsPolling ==
    NonTerminal
    => IF statuses < 20
       THEN /\ poll_attempt = statuses
            /\ Searches = {1}
            /\ Done => (result.kind \in ErrorKinds
                        /\ Cardinality(StatusChecks) = statuses + 1)
       ELSE /\ statuses = 20 /\ Done
            /\ result.kind = "StillProcessing"

C24_Witness ==
    /\ NonTerminal /\ last_status = None /\ ~only_pending
    /\ statuses = 3 /\ pc = "search_tickets:sleep"

\* C25: every invocation of search_tickets ends, whatever the backend
\* answers, and sends at most 2 search requests and at most 20 status
\* checks, each status check after one sleep of its own.
C25_BoundedAndEnds ==
    /\ [](tool = "search_tickets"
            => /\ Cardinality(Searches) <= 2
               /\ Cardinality(StatusChecks) <= 20
               /\ sleeps = Cardinality(StatusChecks)
               /\ Len(requests) = Cardinality(Searches \cup StatusChecks))
    /\ (tool = "search_tickets") ~> Done

C25_Witness ==
    /\ Done /\ tool = "search_tickets"
    /\ Cardinality(Searches) = 2 /\ Cardinality(StatusChecks) = 20
    /\ sleeps = 20

\* C26: in search_tickets a connection failure or a timeout raised by any
\* request (the first search, a status check, the re-issued search) ends
\* the invocation at once with ConnectFailure or TimeoutFailure, and no
\* request follows the one that raised.
C26_TransportFailureEnds ==
    (tool = "search_tickets" /\ raised.t = "exc")
    => /\ Done
       /\ Len(requests) = raised.at
       /\ raised.exc = "ConnectError" => result.kind = "ConnectFailure"
       /\ raised.exc = "TimeoutException" => result.kind = "TimeoutFailure"

C26_Witness ==
    /\ tool = "search_tickets" /\ raised.t = "exc"
    /\ raised.exc = "TimeoutException" /\ raised.at = 4
    /\ IsStatusCheck(requests[4]) /\ result.kind = "TimeoutFailure"

\* the poll loop ran out: the "processing" payload with nothing re-issued
Exhausted ==
    /\ Done /\ tool = "search_tickets"
    /\ result.kind = "StillProcessing" /\ retry_resp.t = "none"
    /\ Searches = {1}

C29_StatusCodeIgnored ==
    (tool = "search_tickets" /\ polled_code \in {401, 404, 500})
    => /\ statuses >= 1 /\ last_status \notin {"SUCCESS", "FAILURE"}
       /\ Searches = {1}
       /\ IF statuses < 20
          THEN pc = "search_tickets:sleep" /\ poll_attempt = statuses
          ELSE Done /\ result.kind = "StillProcessing"

C29_Witness ==
    /\ tool = "search_tickets" /\ polled_code = 401
    /\ last_status = "PENDING" /\ statuses = 2
    /\ pc = "search_tickets:sleep"

\* the key of the entity list of a search tool
EntityKey == IF tool = "search_companies" THEN "companies" ELSE "contacts"

\* search_companies or search_contacts has ended on a 200 answer that
\* carried a JSON object
EntityPage ==
    /\ Done /\ tool \in {"search_companies", "search_contacts"}
    /\ InitialStatus(200) /\ init_resp.page # <<>>

\* C30: in search_companies and search_contacts a 200 body whose `success`
\* is falsy or absent gives the error payload with an empty entity list,
\* empty pagination and empty filters, whatever entities the body holds; a
\* success payload is returned only when `success` is truthy.
C30_SuccessFlagDecides ==
    EntityPage
    => LET data == init_resp.page[1]
           truthy == "success" \in DOMAIN data /\ data.success
       IN  /\ ~truthy
              => /\ result.kind = "ApiError"
                 /\ DOMAIN result.data =
                      {"error", EntityKey, "pagination", "filters"}
                 /\ result.data[EntityKey] = <<>>
                 /\ result.data.pagination = EmptyDict
                 /\ result.data.filters = EmptyDict
           /\ result.kind = "Success" => truthy

C30_Witness ==
    /\ EntityPage /\ tool = "search_contacts"
    /\ "success" \notin DOMAIN init_resp.page[1]
    /\ "contacts" \in DOMAIN init_resp.page[1]
    /\ init_resp.page[1].contacts = <<7, 5>>
    /\ result.kind = "ApiError" /\ result.data.contacts = <<>>

====
